---- MODULE Spec2Model ----
(***************************************************************************)
(* Bird Monitoring Dashboard (22Junestreamlit.py).                         *)
(*                                                                         *)
(* The script is re-run from top to bottom on every user interaction.  One *)
(* run loads the table (memoized), reads the sidebar widgets, filters the  *)
(* loaded frame and renders four tabs of aggregates.  A data frame is      *)
(* modelled as a sequence of rows (records); a missing value is None for   *)
(* text columns, NaN for numeric columns and NaT for dates.  A date is the *)
(* integer yyyymmdd, so that date order is integer order.                  *)
(***************************************************************************)
EXTENDS Integers, Sequences, FiniteSets, TLC

VARIABLES
    db,               \* rows of table bird_monitoring in the store
    loaded,           \* st.cache_data holds a result of load_data()
    df,               \* the frame load_data() returned (the cached frame)
    queries,          \* number of times read_sql ran against the store
    fails,            \* number of runs aborted by a failed connection
    observers,        \* sidebar multiselect "Observer"
    plots,            \* sidebar multiselect "Plot"
    species,          \* sidebar multiselect "Species"
    date_range,       \* value of st.date_input("Date Range")
    selected_species, \* tab 4 multiselect "Select Species"
    filtered_df,      \* result of apply_filters in the last run
    view              \* what the last run computed and rendered

vars == <<db, loaded, df, queries, fails, observers, plots, species,
          date_range, selected_species, filtered_df, view>>

-----------------------------------------------------------------------------
(* Missing-value markers and value encodings                               *)

None == "NULL"      \* SQL NULL / NaN in a text column
NaN == -999         \* NaN in a numeric column
NaT == 0            \* pandas NaT: a date that could not be parsed

Ymd(y, m, d) == y * 10000 + m * 100 + d

YearOf(d) == d \div 10000
MonthOf(d) == (d \div 100) % 100
DayOf(d) == d % 100

MonthAbbr == <<"Jan", "Feb", "Mar", "Apr", "May", "Jun",
               "Jul", "Aug", "Sep", "Oct", "Nov", "Dec">>

\* the month labels in the (alphabetical) order a sorted pandas index has
MonthSorted == <<"Apr", "Aug", "Dec", "Feb", "Jan", "Jul",
                 "Jun", "Mar", "May", "Nov", "Oct", "Sep">>

Min(S) == CHOOSE x \in S : \A y \in S : x <= y

MinOf(a, b) == IF a <= b THEN a ELSE b

Range(s) == {s[i] : i \in DOMAIN s}

\* pd.to_datetime(x, errors="coerce"): a value that is no calendar date
\* (NULL, MySQL's zero date, month 13, ...) becomes NaT
to_datetime(x) ==
    IF x # NaT /\ MonthOf(x) \in 1..12 /\ DayOf(x) \in 1..31 /\ YearOf(x) >= 1
    THEN x ELSE NaT

\* Series.dt.year / Series.dt.strftime("%b"): NaT gives a missing value
dt_year(d) == IF d = NaT THEN NaN ELSE YearOf(d)
dt_month(d) == IF d = NaT THEN None ELSE MonthAbbr[MonthOf(d)]

-----------------------------------------------------------------------------
(* load_data                                                               *)

Row(p, d, o, c, t, w) ==
    [Plot_Name |-> p, Date |-> d, Observer |-> o, Common_Name |-> c,
     Temperature |-> t, PIF_Watchlist_Status |-> w]

\* lines 21-31: the query result with Date parsed and Year, Month derived
load_data(store) ==
    [i \in 1..Len(store) |->
        LET r == store[i]
            d == to_datetime(r.Date)
        IN  [Plot_Name |-> r.Plot_Name, Date |-> d, Observer |-> r.Observer,
             Common_Name |-> r.Common_Name, Temperature |-> r.Temperature,
             PIF_Watchlist_Status |-> r.PIF_Watchlist_Status,
             Year |-> dt_year(d), Month |-> dt_month(d)]]

\* cache_data_load with a fault: the memo is ignored, the store is read again
cache_data_load_requery(isCached, cached, store) == load_data(store)

\* @st.cache_data on load_data(): the stored frame on a hit, else the query
cache_data_load(isCached, cached, store) ==
    IF isCached THEN cached ELSE load_data(store)

-----------------------------------------------------------------------------
(* Sidebar widgets                                                         *)

\* sorted(df[col].dropna().unique()): the options of a multiselect
OptionsOf(frame, col) == {frame[i][col] : i \in DOMAIN frame} \ {None}

\* st.date_input returns a datetime.date (single-date picker) or a tuple of
\* zero, one or two dates (range picker); a list is what a direct caller of
\* apply_filters may pass
DateValue(d) == [kind |-> "date", vals |-> <<d>>]
DateTuple(s) == [kind |-> "tuple", vals |-> s]
DateList(s) == [kind |-> "list", vals |-> s]

-----------------------------------------------------------------------------
(* apply_filters                                                           *)

isin(v, selection) == v \in selection

\* fdf["Date"] >= x and fdf["Date"] <= x: a comparison with NaT is False
date_ge(d, x) == d # NaT /\ x # NaT /\ d >= x
date_le(d, x) == d # NaT /\ x # NaT /\ d <= x

\* is_two_point_list with a fault: any non-empty list is used as a range
is_nonempty_list(dr) == dr.kind = "list" /\ Len(dr.vals) >= 1

\* isinstance(date_range, list) and len(date_range) == 2
is_two_point_list(dr) == dr.kind = "list" /\ Len(dr.vals) = 2

\* apply_filters with a fault: the species selection is tested on the plot
\* column
apply_filters_wrong_column(frame, obs, pl, sp, dr) ==
    LET f1 == IF obs # {} THEN SelectSeq(frame, LAMBDA r : isin(r.Observer, obs))
              ELSE frame
        f2 == IF pl # {} THEN SelectSeq(f1, LAMBDA r : isin(r.Plot_Name, pl))
              ELSE f1
        f3 == IF sp # {} THEN SelectSeq(f2, LAMBDA r : isin(r.Plot_Name, sp))
              ELSE f2
        f4 == IF is_two_point_list(dr)
              THEN SelectSeq(f3, LAMBDA r :
                       /\ date_ge(r.Date, to_datetime(dr.vals[1]))
                       /\ date_le(r.Date, to_datetime(dr.vals[Len(dr.vals)])))
              ELSE f3
    IN  f4

\* lines 45-58
apply_filters(frame, obs, pl, sp, dr) ==
    LET f1 == IF obs # {} THEN SelectSeq(frame, LAMBDA r : isin(r.Observer, obs))
              ELSE frame
        f2 == IF pl # {} THEN SelectSeq(f1, LAMBDA r : isin(r.Plot_Name, pl))
              ELSE f1
        f3 == IF sp # {} THEN SelectSeq(f2, LAMBDA r : isin(r.Common_Name, sp))
              ELSE f2
        f4 == IF is_two_point_list(dr)
              THEN SelectSeq(f3, LAMBDA r :
                       /\ date_ge(r.Date, to_datetime(dr.vals[1]))
                       /\ date_le(r.Date, to_datetime(dr.vals[Len(dr.vals)])))
              ELSE f3
    IN  f4

-----------------------------------------------------------------------------
(* pandas operations used by the aggregates                                *)

TopPie == 10        \* .nlargest(10)
TopBar == 15        \* .nlargest(15)
SampleCap == 1000   \* .sample(n=min(1000, len(filtered_df)))
TableCap == 500     \* .sample(n=min(len(filtered_df), 500))
MaxSelections == 3  \* max_selections=3

Rows(frame) == DOMAIN frame

\* the k-element subsets of a set of row labels
RECURSIVE KSubsets(_, _)
KSubsets(S, k) ==
    IF k = 0 THEN {{}}
    ELSE UNION {{T \cup {x} : T \in KSubsets({y \in S : y > x}, k - 1)} : x \in S}

\* DataFrame.sample(n) without replacement raises ValueError when n exceeds
\* the number of rows
sample_raises(P, n) == n > Cardinality(P)

\* the row sets DataFrame.sample(n) can return (row order is not modelled)
sample(P, n) ==
    IF sample_raises(P, n) THEN {}
    ELSE {P \ D : D \in KSubsets(P, Cardinality(P) - n)}

\* Series.value_counts() of column Common_Name over the rows in S: one entry
\* per non-missing value, by descending count, ties in order of first
\* appearance
value_counts(frame, S) ==
    LET names == {frame[i].Common_Name : i \in S} \ {None}
        cnt(v) == Cardinality({i \in S : frame[i].Common_Name = v})
        first(v) == Min({i \in S : frame[i].Common_Name = v})
        before(u, v) == cnt(u) > cnt(v) \/ (cnt(u) = cnt(v) /\ first(u) < first(v))
        rank(v) == Cardinality({u \in names : before(u, v)}) + 1
    IN  [k \in 1..Cardinality(names) |->
            LET v == CHOOSE v \in names : rank(v) = k
            IN  [Common_Name |-> v, Count |-> cnt(v)]]

\* nlargest with a fault: the n smallest counts are kept
nsmallest(vc, n) ==
    LET before(i, j) == vc[i].Count < vc[j].Count
                        \/ (vc[i].Count = vc[j].Count /\ i < j)
        rank(i) == Cardinality({j \in DOMAIN vc : before(j, i)}) + 1
    IN  [k \in 1..MinOf(n, Len(vc)) |-> vc[CHOOSE i \in DOMAIN vc : rank(i) = k]]

\* Series.nlargest(n), keep="first": the n entries with the largest counts,
\* by descending count, ties in their order in the series
nlargest(vc, n) ==
    LET before(i, j) == vc[i].Count > vc[j].Count
                        \/ (vc[i].Count = vc[j].Count /\ i < j)
        rank(i) == Cardinality({j \in DOMAIN vc : before(j, i)}) + 1
    IN  [k \in 1..MinOf(n, Len(vc)) |-> vc[CHOOSE i \in DOMAIN vc : rank(i) = k]]

\* Series.nunique(): the number of distinct non-missing values
nunique(frame, col) == Cardinality(OptionsOf(frame, col))

-----------------------------------------------------------------------------
(* The aggregates of tab 1                                                 *)

\* lines 86-92
pie_data_of(fdf) == nlargest(value_counts(fdf, Rows(fdf)), TopPie)

\* lines 130-136
bar_df_of(fdf) == nlargest(value_counts(fdf, Rows(fdf)), TopBar)

\* line 98: the rows of sb_data
sb_data_outcomes(fdf) == sample(Rows(fdf), MinOf(SampleCap, Len(fdf)))

\* lines 99-103: groupby(["Observer", "Common_Name"]).size() over the rows S;
\* a row with a missing key belongs to no group
groupby_observer_species(fdf, S) ==
    LET keyed == {i \in S : fdf[i].Observer # None /\ fdf[i].Common_Name # None}
        keys == {<<fdf[i].Observer, fdf[i].Common_Name>> : i \in keyed}
    IN  {[Observer |-> k[1], Common_Name |-> k[2],
          Count |-> Cardinality({i \in keyed : fdf[i].Observer = k[1]
                                            /\ fdf[i].Common_Name = k[2]})]
         : k \in keys}

bar_data_outcomes(fdf) ==
    {groupby_observer_species(fdf, S) : S \in sb_data_outcomes(fdf)}

\* line 141: filtered_df[["Temperature", "Common_Name"]].dropna()
temp_dropna(fdf) ==
    {i \in Rows(fdf) : fdf[i].Temperature # NaN /\ fdf[i].Common_Name # None}

temp_df_raises(fdf) ==
    sample_raises(temp_dropna(fdf), MinOf(SampleCap, Len(fdf)))

temp_df_outcomes(fdf) == sample(temp_dropna(fdf), MinOf(SampleCap, Len(fdf)))

\* line 162: filtered_df["PIF_Watchlist_Status"] > 0 (NaN > 0 is False)
risk_df_of(fdf) ==
    {i \in Rows(fdf) : fdf[i].PIF_Watchlist_Status # NaN
                       /\ fdf[i].PIF_Watchlist_Status > 0}

\* line 165: filtered_df["PIF_Watchlist_Status"] != 0 (NaN != 0 is True)
risk_summary_rows(fdf) ==
    {i \in Rows(fdf) : fdf[i].PIF_Watchlist_Status = NaN
                       \/ fdf[i].PIF_Watchlist_Status # 0}

\* lines 164-168
risk_summary_of(fdf) == value_counts(fdf, risk_summary_rows(fdf))

-----------------------------------------------------------------------------
(* The heatmap pivot of tab 2                                              *)

EmptyTable == [index |-> <<>>, columns |-> {}, cell |-> <<>>]

\* lines 181-185: groupby(["Year", "Month"]).size()
heatmap_df_of(fdf) ==
    LET keyed == {i \in Rows(fdf) : fdf[i].Year # NaN /\ fdf[i].Month # None}
        keys == {<<fdf[i].Year, fdf[i].Month>> : i \in keyed}
    IN  {[Year |-> k[1], Month |-> k[2],
          Observations |-> Cardinality({i \in keyed : fdf[i].Year = k[1]
                                                   /\ fdf[i].Month = k[2]})]
         : k \in keys}

\* .pivot(index="Month", columns="Year", values="Observations"): a row per
\* month and a column per year of heatmap_df, NaN where no group exists
pivot_table(hm) ==
    LET months == {g.Month : g \in hm}
        years == {g.Year : g \in hm}
        idx == SelectSeq(MonthSorted, LAMBDA m : m \in months)
    IN  [index |-> idx, columns |-> years,
         cell |-> [c \in months \X years |->
                     IF \E g \in hm : g.Month = c[1] /\ g.Year = c[2]
                     THEN (CHOOSE g \in hm : g.Month = c[1] /\ g.Year = c[2]).Observations
                     ELSE NaN]]

\* .fillna(0)
fillna0(t) ==
    [t EXCEPT !.cell = [c \in DOMAIN t.cell |->
                          IF t.cell[c] = NaN THEN 0 ELSE t.cell[c]]]

\* .reindex(labels): the rows named by labels, in that order; a label that
\* is no row of the table gives a row of NaN
reindex(t, labels) ==
    [index |-> labels, columns |-> t.columns,
     cell |-> [c \in Range(labels) \X t.columns |->
                 IF c[1] \in Range(t.index) THEN t.cell[c] ELSE NaN]]

\* lines 186-188
pivot_of(fdf) == reindex(fillna0(pivot_table(heatmap_df_of(fdf))), MonthAbbr)

-----------------------------------------------------------------------------
(* One run of the script, lines 62-230                                     *)

\* nothing computed, nothing rendered
BlankView ==
    [error |-> "none", done |-> {},
     kpi |-> [species |-> 0, total |-> 0, plots |-> 0],
     tab1 |-> "none", pie_data |-> <<>>, bar_data |-> {}, bar_df |-> <<>>,
     temp_df |-> {}, risk |-> "none", risk_df |-> {}, risk_summary |-> <<>>,
     tab2 |-> "none", pivot |-> EmptyTable,
     tab3 |-> "none", table_rows |-> 0,
     tab4 |-> "none", species_list |-> {}]

\* lines 64-67
Kpis(fdf, v) ==
    [v EXCEPT !.kpi = [species |-> nunique(fdf, "Common_Name"),
                       total |-> Len(fdf),
                       plots |-> nunique(fdf, "Plot_Name")],
              !.done = @ \cup {"kpi"}]

\* lines 82-138: the charts of tab 1 that precede the temperature scatter
Tab1Head(fdf, b, v) ==
    [v EXCEPT !.pie_data = pie_data_of(fdf),
              !.bar_data = b,
              !.bar_df = bar_df_of(fdf),
              !.done = @ \cup {"pie_data", "bar_data", "bar_df"}]

\* lines 140-173: the temperature scatter and the watch-list section
Tab1Tail(fdf, t, v) ==
    LET risk_df == risk_df_of(fdf)
    IN  [v EXCEPT !.tab1 = "charts",
                  !.temp_df = t,
                  !.risk_df = risk_df,
                  !.risk = IF risk_df # {} THEN "chart" ELSE "info",
                  !.risk_summary = IF risk_df # {} THEN risk_summary_of(fdf)
                                   ELSE <<>>,
                  !.done = @ \cup {"temp_df", "risk_df"}
                             \cup (IF risk_df # {} THEN {"risk_summary"} ELSE {})]

\* lines 176-194
Tab2(fdf, v) ==
    IF fdf = <<>>
    THEN [v EXCEPT !.tab2 = "info"]
    ELSE [v EXCEPT !.tab2 = "heatmap",
                   !.pivot = pivot_of(fdf),
                   !.done = @ \cup {"pivot"}]

\* lines 197-201: the table sample and the CSV are made whatever the size
Tab3(fdf, v) ==
    [v EXCEPT !.tab3 = "dataframe",
              !.table_rows = MinOf(Len(fdf), TableCap),
              !.done = @ \cup {"table", "csv"}]

\* lines 204-230
Tab4(fdf, sel, v) ==
    [v EXCEPT !.species_list = OptionsOf(fdf, "Common_Name"),
              !.tab4 = IF sel # {} THEN "trends" ELSE "info",
              !.done = @ \cup (IF sel # {} THEN {"yearly", "datewise"} ELSE {})]

\* the views one run can end with: one per outcome of the random samples; an
\* exception ends the run where it is raised
Script(fdf, sel) ==
    LET v0 == Kpis(fdf, BlankView)
        rest(v) == Tab4(fdf, sel, Tab3(fdf, Tab2(fdf, v)))
    IN  IF fdf = <<>>
        THEN {rest([v0 EXCEPT !.tab1 = "warning"])}
        ELSE IF temp_df_raises(fdf)
        THEN {[Tab1Head(fdf, b, v0) EXCEPT !.tab1 = "exception",
                                           !.error = "ValueError"]
              : b \in bar_data_outcomes(fdf)}
        ELSE {rest(Tab1Tail(fdf, t, Tab1Head(fdf, b, v0)))
              : b \in bar_data_outcomes(fdf), t \in temp_df_outcomes(fdf)}

-----------------------------------------------------------------------------
(* Bounds and input sets                                                   *)

MaxRows == 2        \* rows of the table
MaxFails == 1       \* runs aborted by a failed connection

SeqsUpTo(S, n) == UNION {[1..k -> S] : k \in 0..n}

\* rows of the table: every filter column with two values and NULL, dates
\* in two years, a date MySQL stores but pandas cannot parse, a missing
\* temperature, and the watch-list flag positive, zero, negative and NULL
RowPool ==
    { Row("A", Ymd(2023, 1, 15), "Ann", "Robin", 20, 1),
      Row("B", Ymd(2023, 3, 20), "Bob", "Wren", NaN, 0),
      Row("B", Ymd(2024, 1, 15), "Ann", "Wren", 22, -1),
      Row("A", Ymd(2021, 0, 0), None, None, 20, NaN) }

Datasets == SeqsUpTo(RowPool, MaxRows)

\* the dates a caller passes, and the days picked in the widget
DateSet == {Ymd(2023, 1, 15), Ymd(2023, 12, 31)}

Today == Ymd(2023, 12, 31)

DatePick == {Ymd(2023, 1, 15)}

\* what st.date_input can return: today until the user picks
DateInputValues ==
    {DateValue(d) : d \in DatePick \cup {Today}}
    \cup {DateTuple(<<>>)}
    \cup {DateTuple(<<d>>) : d \in DatePick}
    \cup {DateTuple(p) : p \in {q \in DatePick \X DatePick : q[1] <= q[2]}}

\* what a caller can pass to apply_filters as date_range
DateArgs ==
    DateInputValues \cup {DateList(s) : s \in SeqsUpTo(DateSet, 2)}

ObserverNames == {"Ann", "Bob"}
PlotNames == {"A", "B"}
SpeciesNames == {"Robin", "Wren"}

-----------------------------------------------------------------------------
(* The session: runs of the script                                         *)

Init ==
    /\ db \in Datasets
    /\ loaded = FALSE
    /\ df = <<>>
    /\ queries = 0
    /\ fails = 0
    /\ observers = {}
    /\ plots = {}
    /\ species = {}
    /\ date_range = DateValue(Today)
    /\ selected_species = {}
    /\ filtered_df = <<>>
    /\ view = BlankView

\* one run of the script with the given widget values
Run(obs, pl, sp, dr, sel) ==
    LET frame == cache_data_load(loaded, df, db)
        fdf == apply_filters(frame, obs, pl, sp, dr)
        opts == OptionsOf(fdf, "Common_Name")
        \* a widget keeps its value only while it is rendered with the same options
        kept == IF view.tab4 # "none" /\ view.species_list = opts /\ sel \subseteq opts
                THEN sel ELSE {}
    IN  /\ loaded' = TRUE
        /\ df' = frame
        /\ queries' = IF loaded THEN queries ELSE queries + 1
        /\ observers' = obs
        /\ plots' = pl
        /\ species' = sp
        /\ date_range' = dr
        /\ filtered_df' = fdf
        /\ \E v \in Script(fdf, kept) :
              /\ view' = v
              /\ selected_species' = IF v.tab4 = "none" THEN {} ELSE kept
        /\ UNCHANGED <<db, fails>>

\* the first run of a session: nothing is cached, the widgets hold defaults
StartSession ==
    /\ ~loaded
    /\ Run(observers, plots, species, date_range, selected_species)

\* pymysql.connect raises: the run ends before anything is rendered
ConnectFails ==
    /\ ~loaded
    /\ fails < MaxFails
    /\ fails' = fails + 1
    /\ view' = [BlankView EXCEPT !.error = "OperationalError"]
    /\ UNCHANGED <<db, loaded, df, queries, observers, plots, species,
                   date_range, selected_species, filtered_df>>

\* the user asks for a rerun without changing a widget
Rerun ==
    /\ loaded
    /\ Run(observers, plots, species, date_range, selected_species)

SelectObservers ==
    /\ loaded
    /\ \E S \in SUBSET OptionsOf(df, "Observer") :
          /\ S # observers
          /\ Run(S, plots, species, date_range, selected_species)

SelectPlots ==
    /\ loaded
    /\ \E S \in SUBSET OptionsOf(df, "Plot_Name") :
          /\ S # plots
          /\ Run(observers, S, species, date_range, selected_species)

SelectSpecies ==
    /\ loaded
    /\ \E S \in SUBSET OptionsOf(df, "Common_Name") :
          /\ S # species
          /\ Run(observers, plots, S, date_range, selected_species)

PickDate ==
    /\ loaded
    /\ \E dr \in DateInputValues :
          /\ dr # date_range
          /\ Run(observers, plots, species, dr, selected_species)

SelectTrendSpecies ==
    /\ loaded
    /\ view.tab4 # "none"
    /\ \E S \in SUBSET view.species_list :
          /\ S # selected_species
          /\ Cardinality(S) <= MaxSelections
          /\ Run(observers, plots, species, date_range, S)

\* another client of the store inserts a row into bird_monitoring
StoreInsert ==
    /\ Len(db) < MaxRows
    /\ \E r \in RowPool : db' = Append(db, r)
    /\ UNCHANGED <<loaded, df, queries, fails, observers, plots, species,
                   date_range, selected_species, filtered_df, view>>

Next ==
    \/ StartSession
    \/ ConnectFails
    \/ Rerun
    \/ SelectObservers
    \/ SelectPlots
    \/ SelectSpecies
    \/ PickDate
    \/ SelectTrendSpecies
    \/ StoreInsert

Spec == Init /\ [][Next]_vars

-----------------------------------------------------------------------------
(* apply_filters as a function: any frame, any selections, any date value  *)

\* the arguments of one call, not yet made
InitFilter ==
    /\ db \in Datasets
    /\ loaded = TRUE
    /\ df = load_data(db)
    /\ queries = 1
    /\ fails = 0
    /\ observers \in SUBSET ObserverNames
    /\ plots \in SUBSET PlotNames
    /\ species \in SUBSET SpeciesNames
    /\ date_range \in DateArgs
    /\ selected_species = {}
    /\ filtered_df = <<>>
    /\ view = BlankView

\* line 60
ApplyFilters ==
    /\ "filtered_df" \notin view.done
    /\ filtered_df' = apply_filters(df, observers, plots, species, date_range)
    /\ view' = [view EXCEPT !.done = @ \cup {"filtered_df"}]
    /\ UNCHANGED <<db, loaded, df, queries, fails, observers, plots, species,
                   date_range, selected_species>>

SpecFilter == InitFilter /\ [][ApplyFilters]_vars

-----------------------------------------------------------------------------
(* The species aggregates as functions of the filtered set                 *)

MaxTail == 3        \* rows that follow the one-row-per-species block

SpeciesSeq == <<"Sp01", "Sp02", "Sp03", "Sp04", "Sp05", "Sp06", "Sp07", "Sp08",
                "Sp09", "Sp10", "Sp11", "Sp12", "Sp13", "Sp14", "Sp15", "Sp16",
                "Sp17">>

SpeciesRow(o, c) == Row("A", Ymd(2023, 1, 15), o, c, 20, 0)

\* k species seen once each, then up to MaxTail rows of the last of them, of
\* two further species or without a species name: the sets around the cut
\* of a top-10 and of a top-15
ManySpecies ==
    UNION {{[i \in 1..k |-> SpeciesRow("Ann", SpeciesSeq[i])] \o tail
            : tail \in SeqsUpTo({SpeciesRow("Ann", c)
                                 : c \in {SpeciesSeq[k], SpeciesSeq[k + 1],
                                          SpeciesSeq[k + 2], None}}, MaxTail)}
           : k \in {TopPie - 1, TopBar - 1}}

\* more rows than a sample holds: k rows of one observer and species, the
\* others of another
ManyRows ==
    {[i \in 1..(SampleCap + 1) |->
         IF i <= k THEN SpeciesRow("Ann", "Robin") ELSE SpeciesRow("Bob", "Wren")]
     : k \in {1, 2}}

InitAggOf(inputs) ==
    /\ db \in inputs
    /\ loaded = TRUE
    /\ df = load_data(db)
    /\ queries = 1
    /\ fails = 0
    /\ observers = {}
    /\ plots = {}
    /\ species = {}
    /\ date_range = DateValue(Today)
    /\ selected_species = {}
    /\ filtered_df = apply_filters(df, {}, {}, {}, DateValue(Today))
    /\ view = BlankView

\* lines 86-92 and 130-136
TopSpecies ==
    /\ filtered_df # <<>>
    /\ view' = [view EXCEPT !.pie_data = pie_data_of(filtered_df),
                            !.bar_df = bar_df_of(filtered_df),
                            !.done = @ \cup {"pie_data", "bar_df"}]
    /\ UNCHANGED <<db, loaded, df, queries, fails, observers, plots, species,
                   date_range, selected_species, filtered_df>>

\* lines 98-103
SpeciesByObserver ==
    /\ filtered_df # <<>>
    /\ \E b \in bar_data_outcomes(filtered_df) :
          view' = [view EXCEPT !.bar_data = b, !.done = @ \cup {"bar_data"}]
    /\ UNCHANGED <<db, loaded, df, queries, fails, observers, plots, species,
                   date_range, selected_species, filtered_df>>

NextAgg == TopSpecies \/ SpeciesByObserver

InitTopN == InitAggOf(ManySpecies)

SpecTopN == InitTopN /\ [][NextAgg]_vars

InitAgg == InitAggOf(ManySpecies \cup ManyRows)

SpecAgg == InitAgg /\ [][NextAgg]_vars

-----------------------------------------------------------------------------
(* Properties                                                              *)

\* the filter as the sentence states it: a row passes a dimension when the
\* selection is empty or holds the row's value
PassesSelections(r) ==
    /\ (observers = {} \/ r.Observer \in observers)
    /\ (plots = {} \/ r.Plot_Name \in plots)
    /\ (species = {} \/ r.Common_Name \in species)

DateUnset == date_range.kind = "date" \/ Len(date_range.vals) = 0

Filtered == "filtered_df" \in view.done

\* C1: with the date range unset, apply_filters returns exactly the rows of
\* the loaded set that pass every non-empty selection, in their order; the
\* result is a subset of the loaded set, and the loaded set itself when all
\* selections are empty.
C1_FilterIsConjunctionOfSelections ==
    (Filtered /\ DateUnset) =>
        /\ filtered_df = SelectSeq(df, PassesSelections)
        /\ Range(filtered_df) \subseteq Range(df)
        /\ (observers = {} /\ plots = {} /\ species = {} => filtered_df = df)

\* two dimensions restrict at once and the result is a proper, non-empty part
C1_Witness ==
    /\ Filtered /\ DateUnset
    /\ observers # {} /\ species # {} /\ plots = {}
    /\ filtered_df # <<>>
    /\ Len(filtered_df) < Len(df)
    /\ \E i \in DOMAIN df : df[i].Observer \in observers
                            /\ df[i].Common_Name \notin species

C3_OtherThanTwoDatesIgnored ==
    (Filtered /\ Len(date_range.vals) # 2) =>
        filtered_df = apply_filters(df, observers, plots, species, DateTuple(<<>>))

\* a one-date list naming a day other than that of a row that was kept
C3_Witness ==
    /\ Filtered
    /\ date_range.kind = "list" /\ Len(date_range.vals) = 1
    /\ \E i \in DOMAIN filtered_df : filtered_df[i].Date # date_range.vals[1]

\* C4: once loaded, every later run sees the same loaded set: the store is
\* not read again and no run changes the loaded frame.
C4_LoadedOnceNeverChanged ==
    /\ [](queries <= 1)
    /\ [][loaded => (loaded' /\ df' = df /\ queries' = queries)]_vars

\* a run filtered the cached frame while the store holds a row more
C4_Witness ==
    /\ loaded /\ queries = 1
    /\ df # load_data(db)
    /\ observers # {}
    /\ filtered_df # <<>>

SpeciesIn(fdf) == OptionsOf(fdf, "Common_Name")

CountOf(fdf, c) == Cardinality({i \in DOMAIN fdf : fdf[i].Common_Name = c})

IsTopN(out, n) ==
    LET names == SpeciesIn(filtered_df)
        shown == {out[k].Common_Name : k \in DOMAIN out}
    IN  /\ Len(out) = MinOf(n, Cardinality(names))
        /\ Cardinality(shown) = Len(out)
        /\ shown \subseteq names
        /\ \A k \in DOMAIN out : out[k].Count = CountOf(filtered_df, out[k].Common_Name)
        /\ \A k \in 1..(Len(out) - 1) : out[k].Count >= out[k + 1].Count
        /\ \A c \in names \ shown : \A k \in DOMAIN out :
              CountOf(filtered_df, c) <= out[k].Count

\* C5: the top-10 and the top-15 hold min(N, distinct species) groups with
\* the exact counts, in non-increasing order, no omitted species counting
\* more than a listed one; computing them again on the same filtered set
\* gives the same groups in the same order.
C5_TopNSpecies ==
    /\ []("pie_data" \in view.done =>
            IsTopN(view.pie_data, TopPie) /\ IsTopN(view.bar_df, TopBar))
    /\ [][("pie_data" \in view.done /\ "pie_data" \in view'.done
           /\ filtered_df' = filtered_df)
          => (view'.pie_data = view.pie_data /\ view'.bar_df = view.bar_df)]_vars

\* more species than either chart lists, a tie at the cut of both, and
\* counts that differ
C5_Witness ==
    /\ "pie_data" \in view.done
    /\ Cardinality(SpeciesIn(filtered_df)) > TopBar
    /\ \E c \in SpeciesIn(filtered_df) :
          /\ c \notin {view.bar_df[k].Common_Name : k \in DOMAIN view.bar_df}
          /\ CountOf(filtered_df, c) = view.bar_df[TopBar].Count
    /\ \E c \in SpeciesIn(filtered_df) :
          /\ c \notin {view.pie_data[k].Common_Name : k \in DOMAIN view.pie_data}
          /\ CountOf(filtered_df, c) = view.pie_data[TopPie].Count
    /\ view.pie_data[1].Count > view.pie_data[TopPie].Count

\* C6 (as claimed): the pivot has the rows Jan..Dec in calendar order and
\* every cell holds the number of filtered rows of that month and year, 0
\* where there is none.
C6_PivotTwelveRowsZeroFilled ==
    view.tab2 = "heatmap" =>
        /\ view.pivot.index = MonthAbbr
        /\ \A m \in Range(MonthAbbr), y \in view.pivot.columns :
              view.pivot.cell[<<m, y>>] =
                  Cardinality({i \in DOMAIN filtered_df :
                                  filtered_df[i].Month = m /\ filtered_df[i].Year = y})

\* C7 (as claimed): for a non-empty filtered set the temperature aggregate
\* is computed without error and is at most 1000 distinct rows of the
\* filtered set that have a temperature and a species name.
C7_TemperatureSampleComputed ==
    (view.tab1 # "none" /\ filtered_df # <<>>) =>
        /\ view.error = "none"
        /\ "temp_df" \in view.done
        /\ Cardinality(view.temp_df) <= SampleCap
        /\ \A i \in view.temp_df :
              /\ i \in DOMAIN filtered_df
              /\ filtered_df[i].Temperature # NaN
              /\ filtered_df[i].Common_Name # None

\* C8 (as claimed): the observer/species aggregate has one entry per pair
\* that occurs in the filtered set, with the number of filtered rows of
\* that pair.
C8_CoOccurrenceOfFilteredSet ==
    "bar_data" \in view.done =>
        view.bar_data =
            {[Observer |-> o, Common_Name |-> c,
              Count |-> Cardinality({i \in DOMAIN filtered_df :
                                        /\ filtered_df[i].Observer = o
                                        /\ filtered_df[i].Common_Name = c})]
             : <<o, c>> \in {p \in OptionsOf(filtered_df, "Observer")
                                   \X OptionsOf(filtered_df, "Common_Name") :
                               \E i \in DOMAIN filtered_df :
                                  /\ filtered_df[i].Observer = p[1]
                                  /\ filtered_df[i].Common_Name = p[2]}}

Placeholders == {"info", "warning"}

\* C9 (as claimed): when the filtered set is empty every tab shows a
\* placeholder and no aggregate is computed.
C9_EmptySetShowsPlaceholders ==
    (view.tab1 # "none" /\ filtered_df = <<>>) =>
        /\ view.error = "none"
        /\ view.tab1 \in Placeholders
        /\ view.tab2 \in Placeholders
        /\ view.tab3 \in Placeholders
        /\ view.tab4 \in Placeholders
        /\ view.done \subseteq {"kpi"}

\* C10 (as claimed): the watch-list chart counts exactly the rows that pass
\* the at-risk test deciding whether the chart is shown.
C10_WatchListCountsAtRiskRows ==
    view.risk # "none" =>
        /\ (view.risk = "chart") = (view.risk_df # {})
        /\ view.risk = "chart" =>
              /\ {view.risk_summary[k].Common_Name : k \in DOMAIN view.risk_summary}
                   = {filtered_df[i].Common_Name : i \in view.risk_df} \ {None}
              /\ \A k \in DOMAIN view.risk_summary :
                    view.risk_summary[k].Count =
                        Cardinality({i \in view.risk_df :
                            filtered_df[i].Common_Name = view.risk_summary[k].Common_Name})

====
